---- MODULE Spec2Model ----
(***************************************************************************)
(* Model of ZingTouch's state coordinator (src/core/state.js): the contact *)
(* tracker (inputs, updateInputs, resetInputs, numActiveInputs) and the    *)
(* binding registry (bindings, numGestures, registeredGestures,            *)
(* addBinding, retrieveBindings).                                          *)
(*                                                                         *)
(* JavaScript arrays are 0-based, TLA+ sequences 1-based: the array slot   *)
(* inputs[k] of the source is inputs[k + 1] here.                          *)
(***************************************************************************)
EXTENDS Integers, Sequences, FiniteSets, TLC

\* ----------------------------------------------------------------- bounds
\* Contact identifiers handed out by the host surface are 0..MaxId.
MaxId == 1
\* The record collection is explored up to this length.
MaxInputs == 2
\* The binding list is explored up to this length.
MaxBindings == 2
\* With both halves of the coordinator running together, the record
\* collection and the binding list are explored up to this length.
MaxBoth == 2
Identifiers == 0..MaxId

\* --------------------------------------------------------------- variables
VARIABLES
  inputs,       \* state.inputs: the ordered collection of contact records
  bindings,     \* state.bindings: the list of Binding objects
  numGestures,  \* state.numGestures: the id counter
  gestureId,    \* the id field of every Gesture object
  listeners,    \* the element.addEventListener calls made so far, in order
  boundBy,      \* for every binding, the gesture argument addBinding was given
  call,         \* the last operation called on the coordinator, with its arguments
  ret,          \* what that operation returned ("throw": it raised a TypeError)
  matches,      \* the array returned, when the last call was retrieveBindings
  count,        \* the number returned, when the last call was numActiveInputs
  scenario,     \* how far the calls since the tracker was last empty follow
                \* start(id), move(id), end(id) for one identifier
  pointerRun    \* every event since the last reset came without a touches list

trackerVars == <<inputs, scenario, pointerRun>>
registryVars == <<bindings, numGestures, gestureId, listeners, boundBy>>
vars == <<inputs, bindings, numGestures, gestureId, listeners, boundBy, call, ret,
          matches, count, scenario, pointerRun>>

\* ------------------------------------------------- collaborators (not in src/)
\* util.normalizeEvent: raw event-type label -> canonical phase.
normalizeEvent(type) ==
  CASE type \in {"touchstart", "mousedown"} -> "start"
    [] type \in {"touchmove", "mousemove"} -> "move"
    [] type \in {"touchend", "mouseup"} -> "end"
    [] type = "touchcancel" -> "cancel"
    [] OTHER -> "unrecognized"

\* new Input(event, id): a record in the event's phase; the single-pointer
\* path passes no identifier and the record takes the implicit identifier 0.
NewInput(type, id) == [identifier |-> id, type |-> normalizeEvent(type)]

\* Input.update(event, id): the record takes the event's phase, its identifier stays.
InputUpdate(rec, type) == [rec EXCEPT !.type = normalizeEvent(type)]

\* ------------------------------------------------------------ raw events
TouchTypes == {"touchstart", "touchmove", "touchend", "touchcancel"}
MouseTypes == {"mousedown", "mousemove", "mouseup"}
\* A label outside the normalizer's vocabulary.
OtherTypes == {"wheel"}

\* changedTouches: a list of contacts with pairwise distinct identifiers.
ChangedLists ==
  {<<>>} \cup {<<a>> : a \in Identifiers}
         \cup {x \in Identifiers \X Identifiers : x[1] # x[2]}

\* touches and targetTouches are kept by their lengths, of which updateInputs
\* reads only whether they differ: every contact on the target, or two
\* contacts of which one is on the target.
TouchLengths == {<<1, 1>>, <<2, 1>>}

\* An event with a touches list (the multi-contact path).
TouchEvents ==
  {[type |-> t, hasTouches |-> TRUE, touches |-> n[1], targetTouches |-> n[2],
    changedTouches |-> c] :
      t \in TouchTypes \cup OtherTypes, n \in TouchLengths, c \in ChangedLists}

\* An event without a touches list (the single-pointer fallback path).
PointerEvents ==
  [type : MouseTypes \cup OtherTypes, hasTouches : {FALSE},
   touches : {0}, targetTouches : {0}, changedTouches : {<<>>}]

Events == TouchEvents \cup PointerEvents

\* --------------------------------------------------------- contact tracker
\* this.inputs[id] is truthy: the array has a slot at index id.
HasSlot(inp, id) == id + 1 \in DOMAIN inp

\* resetInputs: this.inputs = []
resetInputs == <<>>

\* The loop over event.changedTouches of updateInputs (lines 110-127), from
\* the collection inp on: the collection it leaves and what updateInputs returns.
RECURSIVE changedLoop(_, _, _)
changedLoop(inp, type, changed) ==
  IF changed = <<>> THEN [inputs |-> inp, ret |-> "true"]
  ELSE LET id == Head(changed) IN
    IF normalizeEvent(type) = "start"
    THEN IF HasSlot(inp, id)
         THEN [inputs |-> resetInputs, ret |-> "false"]
         ELSE changedLoop(Append(inp, NewInput(type, id)), type, Tail(changed))
    ELSE IF HasSlot(inp, id)
         THEN changedLoop([inp EXCEPT ![id + 1] = InputUpdate(inp[id + 1], type)],
                          type, Tail(changed))
         ELSE changedLoop(inp, type, Tail(changed))

\* updateInputs without the comparison of touches.length and
\* targetTouches.length at its head.
updateInputs_NoTargetCheck(inp, event) ==
  IF event.hasTouches
  THEN changedLoop(inp, event.type, event.changedTouches)
  ELSE IF normalizeEvent(event.type) = "start"
  THEN [inputs |-> Append(inp, NewInput(event.type, 0)), ret |-> "true"]
  ELSE IF HasSlot(inp, 0)
  THEN [inputs |-> [inp EXCEPT ![1] = InputUpdate(inp[1], event.type)], ret |-> "true"]
  ELSE [inputs |-> inp, ret |-> "throw"]

\* updateInputs(event) on the collection inp.
updateInputs(inp, event) ==
  IF event.hasTouches /\ event.touches # event.targetTouches
  THEN [inputs |-> resetInputs, ret |-> "false"]
  ELSE IF event.hasTouches
  THEN changedLoop(inp, event.type, event.changedTouches)
  ELSE IF normalizeEvent(event.type) = "start"
  THEN [inputs |-> Append(inp, NewInput(event.type, 0)), ret |-> "true"]
  ELSE IF HasSlot(inp, 0)
  THEN [inputs |-> [inp EXCEPT ![1] = InputUpdate(inp[1], event.type)], ret |-> "true"]
  ELSE [inputs |-> inp, ret |-> "throw"]   \* this.inputs[0] is undefined: TypeError

\* numActiveInputs()
numActiveInputs(inp) == Cardinality({i \in DOMAIN inp : inp[i].type # "end"})

\* -------------------------------------------------------- binding registry
\* Objects are named by strings. The six interpreters built at line 28-35:
RegisteredGestures ==
  [expand |-> "Expand", pan |-> "Pan", pinch |-> "Pinch",
   rotate |-> "Rotate", swipe |-> "Swipe", tap |-> "Tap"]
GestureNames == DOMAIN RegisteredGestures

\* Gesture objects the application constructs itself and binds by object.
CustomGestures == {"custom1", "custom2"}
\* Every object that is an instance of Gesture.
Gestures == {RegisteredGestures[n] : n \in GestureNames} \cup CustomGestures
\* Objects that are no Gesture: a plain object an application may pass, and
\* the values registeredGestures inherits from Object.prototype.
PlainObject == "plainObject"
ObjectConstructor == "Object"
Undefined == "undefined"

\* Names that are no key of registeredGestures: one that resolves to nothing
\* and one that registeredGestures inherits from Object.prototype.
UnknownNames == {"drag", "constructor"}

\* gesture instanceof Gesture
IsGesture(g) == g \in Gestures

\* this.registeredGestures[name]: an own key, an inherited one, or undefined.
lookupGesture(name) ==
  IF name \in GestureNames THEN RegisteredGestures[name]
  ELSE IF name = "constructor" THEN ObjectConstructor
  ELSE Undefined

\* The id a Gesture object holds before setId was ever called on it.
NoId == -1

\* gesture.getId()
getId(ids, g) == ids[g]

\* gesture.setId(id)
setId(ids, g, id) == [ids EXCEPT ![g] = id]

\* new Binding(element, gesture, handler, capture, bindOnce)
Binding(element, gesture, handler, capture, bindOnce) ==
  [element |-> element, gesture |-> gesture, handler |-> handler,
   capture |-> capture, bindOnce |-> bindOnce]

\* The gesture argument of addBinding: a string or an object.
StringArg(name) == [tag |-> "string", val |-> name]
ObjectArg(obj) == [tag |-> "object", val |-> obj]
GestureArgs ==
  {StringArg(n) : n \in GestureNames \cup UnknownNames}
    \cup {ObjectArg(o) : o \in CustomGestures \cup {PlainObject}}

Elements == {"el1", "el2"}
\* element, handler, capture, bindOnce as the callers modelled pass them: two
\* handlers on one element, and another element with the flags set.
BindTargets ==
  {<<"el1", "fn", FALSE, FALSE>>, <<"el1", "fn2", FALSE, FALSE>>,
   <<"el2", "fn", TRUE, TRUE>>}

\* A resolution that builds a new interpreter for a name already bound instead
\* of returning the registered one.
resolveGesture_NewInstance(st, gesture) ==
  IF gesture.tag # "string" THEN gesture.val
  ELSE IF \E i \in DOMAIN st.bindings : st.bindings[i].gesture = lookupGesture(gesture.val)
  THEN "custom2"
  ELSE lookupGesture(gesture.val)

\* The value of the variable gesture after lines 52-53: a string is replaced
\* by this.registeredGestures[gesture], an object is kept.
resolveGesture(st, gesture) ==
  IF gesture.tag = "string" THEN lookupGesture(gesture.val) ELSE gesture.val

\* The id assigned without advancing the counter.
assignId_NoIncrement(st, g) ==
  [st EXCEPT !.gestureId = setId(st.gestureId, g, st.numGestures)]

\* Line 60, gesture.setId(this.numGestures++): g takes the counter's value
\* and the counter advances.
assignId(st, g) ==
  [st EXCEPT !.gestureId = setId(st.gestureId, g, st.numGestures),
             !.numGestures = st.numGestures + 1]

\* A registration that leaves out the capture flag (the listener is added for
\* the bubble phase).
registerListener_NoCapture(ls, element, channel, handler, capture) ==
  Append(ls, [element |-> element, channel |-> channel,
              handler |-> handler, capture |-> FALSE])

\* Line 66, element.addEventListener(gesture.getId(), handler, capture), on
\* the log ls of registrations.
registerListener(ls, element, channel, handler, capture) ==
  Append(ls, [element |-> element, channel |-> channel,
              handler |-> handler, capture |-> capture])

\* addBinding(element, gesture, handler, capture, bindOnce) in the registry
\* state st: the registry state it leaves and what it returns.
addBinding(st, element, gesture, handler, capture, bindOnce) ==
  LET resolved == resolveGesture(st, gesture)
      nullResult == [st EXCEPT !.ret = "null"]
      \* line 60, taken only for an object that is a Gesture
      assigned == IF gesture.tag = "string" THEN st ELSE assignId(st, resolved)
  IN
  IF gesture.tag = "string" /\ resolved = Undefined THEN nullResult
  ELSE IF gesture.tag # "string" /\ ~IsGesture(resolved) THEN nullResult
  ELSE IF IsGesture(resolved)
  THEN \* lines 63-68
    [assigned EXCEPT
       !.bindings = Append(@, Binding(element, resolved, handler, capture, bindOnce)),
       !.listeners = registerListener(@, element, getId(assigned.gestureId, resolved),
                                      handler, capture),
       !.ret = "binding"]
  ELSE [st EXCEPT !.ret = "undefined"]    \* falls off the end of the function

\* A scan that returns at its first match.
retrieveBindings_FirstOnly(bs, element) ==
  LET all == SelectSeq(bs, LAMBDA b : b.element = element)
  IN IF all = <<>> THEN <<>> ELSE <<all[1]>>

\* retrieveBindings(element)
retrieveBindings(bs, element) == SelectSeq(bs, LAMBDA b : b.element = element)

\* ------------------------------------------------------ scenario tracking
NoScenario == [id |-> 0, stage |-> "none"]

IsSingle(event, phase, id) ==
  /\ event.hasTouches
  /\ event.touches = event.targetTouches
  /\ normalizeEvent(event.type) = phase
  /\ event.changedTouches = <<id>>

\* The scenario position after updateInputs(event) is called in a state with
\* collection inp and scenario position sc.
scenarioAfter(inp, sc, event) ==
  IF inp = <<>> /\ \E i \in Identifiers : IsSingle(event, "start", i)
  THEN [id |-> event.changedTouches[1], stage |-> "started"]
  ELSE IF sc.stage = "started" /\ IsSingle(event, "move", sc.id)
  THEN [sc EXCEPT !.stage = "moved"]
  ELSE IF sc.stage = "moved" /\ IsSingle(event, "end", sc.id)
  THEN [sc EXCEPT !.stage = "ended"]
  ELSE NoScenario

\* Whether, after updateInputs(event) returned r, every event since the last
\* reset came without a touches list; run tells it of the state before.
pointerRunAfter(run, event, r) ==
  IF event.hasTouches THEN r = "false" ELSE run

\* ------------------------------------------------------------------ actions
\* matches and count hold a result only right after the call that returned it.
NoResult == matches' = <<>> /\ count' = 0

NoEvent == [type |-> "none", hasTouches |-> FALSE, touches |-> 0,
            targetTouches |-> 0, changedTouches |-> <<>>]

Init ==
  /\ inputs = <<>>
  /\ bindings = <<>>
  /\ numGestures = 0
  /\ gestureId = [g \in Gestures |-> NoId]
  /\ listeners = <<>>
  /\ boundBy = <<>>
  /\ call = [op |-> "none", event |-> NoEvent]
  /\ ret = "none"
  /\ matches = <<>>
  /\ count = 0
  /\ scenario = NoScenario
  /\ pointerRun = TRUE

\* updateInputs(event), the collection being explored up to length maxLen.
UpdateInputsOn(event, maxLen) ==
  LET r == updateInputs(inputs, event) IN
    /\ Len(r.inputs) <= maxLen
    /\ inputs' = r.inputs
    /\ ret' = r.ret
    /\ call' = [op |-> "updateInputs", event |-> event]
    /\ scenario' = scenarioAfter(inputs, scenario, event)
    /\ pointerRun' = pointerRunAfter(pointerRun, event, r.ret)
    /\ NoResult
    /\ UNCHANGED registryVars

UpdateInputs == \E event \in Events : UpdateInputsOn(event, MaxInputs)

\* A reset that drops only the records that reached the end phase.
ResetInputs_OnlyEnded ==
  /\ inputs' = SelectSeq(inputs, LAMBDA r : r.type # "end")
  /\ ret' = "undefined"
  /\ call' = [op |-> "resetInputs", event |-> NoEvent]
  /\ scenario' = NoScenario
  /\ pointerRun' = TRUE
  /\ NoResult
  /\ UNCHANGED registryVars

\* A reset that clears the bindings and the id counter with the records.
ResetInputs_ClearsBindings ==
  /\ inputs' = resetInputs
  /\ ret' = "undefined"
  /\ call' = [op |-> "resetInputs", event |-> NoEvent]
  /\ scenario' = NoScenario
  /\ pointerRun' = TRUE
  /\ NoResult
  /\ bindings' = <<>> /\ listeners' = <<>> /\ boundBy' = <<>> /\ numGestures' = 0
  /\ UNCHANGED gestureId

ResetInputs ==
  /\ inputs' = resetInputs
  /\ ret' = "undefined"
  /\ call' = [op |-> "resetInputs", event |-> NoEvent]
  /\ scenario' = NoScenario
  /\ pointerRun' = TRUE
  /\ NoResult
  /\ UNCHANGED registryVars

\* numActiveInputs() reads the collection and changes nothing.
NumActiveInputs ==
  /\ count' = numActiveInputs(inputs)
  /\ ret' = "number"
  /\ call' = [op |-> "numActiveInputs", event |-> NoEvent]
  /\ matches' = <<>>
  /\ UNCHANGED <<trackerVars, registryVars>>

\* addBinding(t[1], gesture, t[2], t[3], t[4]), the binding list being
\* explored up to length maxLen.
AddBindingOn(t, gesture, maxLen) ==
  LET st == [bindings |-> bindings, numGestures |-> numGestures,
             gestureId |-> gestureId, listeners |-> listeners, ret |-> ret]
      r == addBinding(st, t[1], gesture, t[2], t[3], t[4])
  IN
    /\ Len(r.bindings) <= maxLen
    /\ bindings' = r.bindings
    /\ numGestures' = r.numGestures
    /\ gestureId' = r.gestureId
    /\ listeners' = r.listeners
    /\ ret' = r.ret
    /\ boundBy' = IF r.ret = "binding" THEN Append(boundBy, gesture) ELSE boundBy
    /\ call' = [op |-> "addBinding", element |-> t[1], gesture |-> gesture,
                handler |-> t[2], capture |-> t[3], bindOnce |-> t[4]]
    /\ NoResult
    /\ UNCHANGED trackerVars

AddBinding ==
  \E t \in BindTargets, gesture \in GestureArgs : AddBindingOn(t, gesture, MaxBindings)

\* retrieveBindings(element) reads the binding list and changes nothing.
RetrieveBindings ==
  \E element \in Elements :
    /\ matches' = retrieveBindings(bindings, element)
    /\ ret' = "array"
    /\ call' = [op |-> "retrieveBindings", element |-> element]
    /\ count' = 0
    /\ UNCHANGED <<trackerVars, registryVars>>

TrackerNext == UpdateInputs \/ ResetInputs \/ NumActiveInputs
RegistryNext == AddBinding \/ RetrieveBindings
Next == UpdateInputs \/ ResetInputs \/ NumActiveInputs \/ AddBinding \/ RetrieveBindings

\* The coordinator as a whole, and each of its two independent halves alone.
Spec == Init /\ [][Next]_vars
TrackerSpec == Init /\ [][TrackerNext]_vars
RegistrySpec == Init /\ [][RegistryNext]_vars

\* Both halves together, every operation of the coordinator interleaved with
\* every other, on a part of the events and arguments: starts and ends of
\* contact 0 on and off the target and of the single pointer; a registered
\* name, an unknown name and a gesture object, bound with one handler on either
\* element.
SampleEvents ==
  {e \in Events :
     /\ e.type \in {"touchstart", "touchend", "mousedown", "mouseup"}
     /\ e.hasTouches => e.changedTouches = <<0>>}
SampleArgs == {StringArg("swipe"), StringArg("drag"), ObjectArg("custom1")}
SampleTargets == {t \in BindTargets : t[2] = "fn"}

UpdateInputsSample == \E event \in SampleEvents : UpdateInputsOn(event, MaxBoth)
AddBindingSample ==
  \E t \in SampleTargets, gesture \in SampleArgs : AddBindingOn(t, gesture, MaxBoth)

CoordinatorNext ==
  \/ UpdateInputsSample
  \/ ResetInputs
  \/ NumActiveInputs
  \/ AddBindingSample
  \/ RetrieveBindings
CoordinatorSpec == Init /\ [][CoordinatorNext]_vars

\* ------------------------------------------------------------------ claims
\* Whether the collection inp holds a record for identifier id (in any phase),
\* and whether it holds one that is not in the end phase.
HasRecord(inp, id) == \E i \in DOMAIN inp : inp[i].identifier = id
HasLiveRecord(inp, id) ==
  \E i \in DOMAIN inp : inp[i].identifier = id /\ inp[i].type # "end"

\* The identifiers of a changed-contact list.
ChangedIds(event) == {event.changedTouches[k] : k \in DOMAIN event.changedTouches}

\* The step is a call of updateInputs with a multi-contact event whose touches
\* and targetTouches have equal lengths and whose normalized phase is in phases.
IsTouchCall(c, phases) ==
  /\ c.op = "updateInputs"
  /\ c.event.hasTouches
  /\ c.event.touches = c.event.targetTouches
  /\ normalizeEvent(c.event.type) \in phases

\* C1: from an empty tracker, start(id), move(id), end(id) for one identifier
\* make numActiveInputs() 1 after the start, 1 after the move, 0 after the end.
C1_ScenarioA ==
  /\ scenario.stage = "started" => numActiveInputs(inputs) = 1
  /\ scenario.stage = "moved" => numActiveInputs(inputs) = 1
  /\ scenario.stage = "ended" => numActiveInputs(inputs) = 0

\* C2: a start whose changed-contact list contains an identifier that already
\* has a record not in the end phase clears the collection and returns false.
C2_DuplicateStartResets ==
  [][(/\ IsTouchCall(call', {"start"})
      /\ \E id \in ChangedIds(call'.event) : HasLiveRecord(inputs, id))
     => (inputs' = <<>> /\ ret' = "false")]_vars

\* C3: a move or end whose changed contacts carry identifiers for which no
\* record exists leaves every record and the number of records unchanged, does
\* not reset, and returns true.
C3_OrphanIgnored ==
  [][(/\ IsTouchCall(call', {"move", "end"})
      /\ ChangedIds(call'.event) # {}
      /\ \A id \in ChangedIds(call'.event) : ~HasRecord(inputs, id))
     => (inputs' = inputs /\ ret' = "true")]_vars

\* C4: an updateInputs call whose event has touches.length different from
\* targetTouches.length returns false and leaves the collection empty, so
\* numActiveInputs() is 0, whatever the phase and the state it was called in.
C4_MismatchResets ==
  (/\ call.op = "updateInputs"
   /\ call.event.hasTouches
   /\ call.event.touches # call.event.targetTouches)
  => (ret = "false" /\ inputs = <<>> /\ numActiveInputs(inputs) = 0)

\* C4 witness: Scenario B, two contacts starting with touches.length = 2 and
\* targetTouches.length = 1, has been processed and answered false.
C4_Witness ==
  /\ call.op = "updateInputs"
  /\ call.event.hasTouches
  /\ call.event.touches = 2 /\ call.event.targetTouches = 1
  /\ normalizeEvent(call.event.type) = "start"
  /\ Len(call.event.changedTouches) = 2
  /\ ret = "false"
  /\ inputs = <<>>

\* C5: updateInputs never aborts with an exception: every call completes and
\* returns a boolean.
C5_NeverThrows ==
  call.op = "updateInputs" => ret \in {"true", "false"}

\* C7: no two records that are both not in the end phase carry the same
\* contact identifier.
C7_UniqueLiveIdentifiers ==
  \A i, j \in DOMAIN inputs :
    (i # j /\ inputs[i].type # "end" /\ inputs[j].type # "end")
      => inputs[i].identifier # inputs[j].identifier

\* The records a start event creates for its changed contacts, in arrival order.
NewRecords(event) ==
  [k \in DOMAIN event.changedTouches |-> NewInput(event.type, event.changedTouches[k])]

\* C8: a start with equal touches/targetTouches lengths whose changed contacts
\* all have no existing record appends one record per changed contact at the
\* end, in arrival order, keeps the earlier records and returns true.
C8_FreshStartAppends ==
  [][(/\ IsTouchCall(call', {"start"})
      /\ \A id \in ChangedIds(call'.event) : ~HasRecord(inputs, id))
     => (inputs' = inputs \o NewRecords(call'.event) /\ ret' = "true")]_vars

\* The step is a call of addBinding.
IsBindCall(c) == c.op = "addBinding"

\* C6: addBinding with a gesture object that already holds an assigned id
\* leaves that object's id as it was.
C6_IdAssignedOnce ==
  [][(/\ IsBindCall(call')
      /\ call'.gesture.tag = "object"
      /\ IsGesture(call'.gesture.val)
      /\ getId(gestureId, call'.gesture.val) # NoId)
     => getId(gestureId', call'.gesture.val) = getId(gestureId, call'.gesture.val)]_vars

\* C9: every addBinding with one of the six names succeeds, and any two
\* bindings made with the same name hold the same capability instance and
\* the same gesture id.
C9_SameInstanceByName ==
  /\ (IsBindCall(call) /\ call.gesture.tag = "string"
        /\ call.gesture.val \in {"tap", "pan", "pinch", "rotate", "swipe", "expand"})
       => (ret = "binding" /\ bindings # <<>>
             /\ bindings[Len(bindings)] =
                  Binding(call.element, bindings[Len(bindings)].gesture,
                          call.handler, call.capture, call.bindOnce))
  /\ \A i, j \in DOMAIN bindings :
       (boundBy[i].tag = "string" /\ boundBy[j] = boundBy[i])
         => /\ bindings[i].gesture = bindings[j].gesture
            /\ getId(gestureId, bindings[i].gesture) = getId(gestureId, bindings[j].gesture)

\* C9 witness: Scenario C, two bindings made with the name swipe on one
\* element with two handlers.
C9_Witness ==
  \E i, j \in DOMAIN bindings :
    /\ i < j
    /\ boundBy[i] = StringArg("swipe") /\ boundBy[j] = StringArg("swipe")
    /\ bindings[i].element = bindings[j].element
    /\ bindings[i].handler # bindings[j].handler
    /\ bindings[i].gesture = "Swipe" /\ bindings[j].gesture = "Swipe"

\* C10: addBinding with a string that is not one of the six names returns
\* null and leaves the binding list, the id counter and every gesture's id
\* unchanged.
C10_UnknownNameNull ==
  [][(/\ IsBindCall(call')
      /\ call'.gesture.tag = "string"
      /\ call'.gesture.val \notin {"tap", "pan", "pinch", "rotate", "swipe", "expand"})
     => (/\ ret' = "null"
         /\ bindings' = bindings
         /\ numGestures' = numGestures
         /\ gestureId' = gestureId)]_vars

\* C11: ids come from one counter, are strictly increasing in assignment
\* order and are never reused: the ids under which gesture objects were
\* registered increase along the registrations, every assigned id is below the
\* counter, and no two distinct gesture objects hold the same assigned id.
C11_IdsIncreaseNeverShared ==
  /\ \A g, h \in Gestures :
       (g # h /\ getId(gestureId, g) # NoId) => getId(gestureId, g) # getId(gestureId, h)
  /\ \A g \in Gestures : getId(gestureId, g) < numGestures
  /\ \A i, j \in DOMAIN listeners :
       (i < j /\ boundBy[i].tag = "object" /\ boundBy[j].tag = "object")
         => listeners[i].channel < listeners[j].channel

\* C11 witness: two distinct gesture objects were bound, on two elements, and
\* each holds an assigned id.
C11_Witness ==
  /\ Len(bindings) = 2
  /\ bindings[1].gesture \in CustomGestures /\ bindings[2].gesture \in CustomGestures
  /\ bindings[1].gesture # bindings[2].gesture
  /\ bindings[1].element # bindings[2].element
  /\ getId(gestureId, bindings[1].gesture) = 0
  /\ getId(gestureId, bindings[2].gesture) = 1

\* The bindings of bs stored for element el, as a list m: as many as bs holds
\* for el, the k-th of m being the k-th binding of bs whose element is el.
IsScanResult(m, bs, el) ==
  /\ Len(m) = Cardinality({i \in DOMAIN bs : bs[i].element = el})
  /\ \A k \in DOMAIN m :
       \E i \in DOMAIN bs :
         /\ bs[i].element = el
         /\ Cardinality({j \in 1..i : bs[j].element = el}) = k
         /\ m[k] = bs[i]

\* C12: retrieveBindings(element) returns exactly the bindings stored for that
\* element, once per registration, in registration order, none stored for
\* another element, and leaves the binding list as it was.
C12_RetrieveScoped ==
  [][call'.op = "retrieveBindings"
     => (/\ IsScanResult(matches', bindings, call'.element)
         /\ \A k \in DOMAIN matches' : matches'[k].element = call'.element
         /\ bindings' = bindings)]_vars

\* C12 witness: with a binding on each of two elements, retrieveBindings for
\* the element bound second returned that binding alone.
C12_Witness ==
  /\ call.op = "retrieveBindings"
  /\ Len(bindings) = 2
  /\ bindings[1].element # call.element
  /\ matches = <<bindings[2]>>

\* C13: an updateInputs call whose event normalizes to the cancel phase
\* clears the collection and returns false, as the reset on a length mismatch
\* does.
C13_CancelResets ==
  (call.op = "updateInputs" /\ normalizeEvent(call.event.type) = "cancel")
    => (inputs = <<>> /\ ret = "false")

\* C14: on the single-pointer path, after events without a touches list of
\* which at least one was a start, the collection holds exactly one record,
\* and numActiveInputs() is 0 once the last event was an end.
C14_PointerSoleRecord ==
  (pointerRun /\ inputs # <<>>)
    => /\ Len(inputs) = 1
       /\ (call.op = "updateInputs" /\ normalizeEvent(call.event.type) = "end")
            => numActiveInputs(inputs) = 0

\* C16: resetInputs leaves the collection empty, numActiveInputs() being 0,
\* and a second resetInputs right after it changes nothing.
C16_ResetEmptiesIdempotent ==
  [][call'.op = "resetInputs"
     => (/\ inputs' = <<>>
         /\ numActiveInputs(inputs') = 0
         /\ call.op = "resetInputs"
              => (inputs' = inputs /\ scenario' = scenario /\ pointerRun' = pointerRun))]_vars

\* C16 witness: resetInputs was called and the collection is empty.
C16_Witness ==
  /\ call.op = "resetInputs"
  /\ inputs = <<>>
  /\ numActiveInputs(inputs) = 0

\* C17: on the multi-contact path a move or end for some identifiers changes
\* no record whose own identifier is none of them.
C17_UpdateOwnRecordOnly ==
  [][IsTouchCall(call', {"move", "end"})
     => (/\ Len(inputs') = Len(inputs)
         /\ \A k \in DOMAIN inputs :
              inputs[k].identifier \notin ChangedIds(call'.event)
                => inputs'[k] = inputs[k])]_vars

\* C19: a record in the end phase stays in it until the collection is reset,
\* and numActiveInputs() never increases by an updateInputs call whose phase
\* is not start, on either path.
C19_EndIsFinal ==
  [][(call'.op = "updateInputs" /\ normalizeEvent(call'.event.type) # "start")
     => (/\ numActiveInputs(inputs') <= numActiveInputs(inputs)
         /\ inputs' # <<>>
              => \A k \in DOMAIN inputs :
                   inputs[k].type = "end" => (k \in DOMAIN inputs' /\ inputs'[k].type = "end"))]_vars

\* C15: a successful addBinding registers the handler on the element once,
\* under the gesture's id and the given capture flag; a failed one registers
\* nothing; the registrations are as many as the bindings.
C15_RegisteredOncePerBinding ==
  [][IsBindCall(call')
     => (/\ Len(listeners') = Len(bindings')
         /\ IF ret' = "binding"
            THEN /\ Len(bindings') = Len(bindings) + 1
                 /\ listeners' =
                      Append(listeners,
                             [element |-> call'.element,
                              channel |-> getId(gestureId', bindings'[Len(bindings')].gesture),
                              handler |-> call'.handler,
                              capture |-> call'.capture])
            ELSE /\ bindings' = bindings
                 /\ listeners' = listeners)]_vars

\* C15 witness: two successful addBinding calls have made two registrations,
\* the second for the capture phase.
C15_Witness ==
  /\ IsBindCall(call)
  /\ ret = "binding"
  /\ call.capture
  /\ Len(bindings) = 2 /\ Len(listeners) = 2
  /\ listeners[2].capture /\ ~listeners[1].capture
  /\ listeners[2].handler = call.handler /\ listeners[2].element = call.element

\* C20: for every binding, the channel its handler was registered under is
\* the current id of the binding's gesture.
C20_ChannelIsGestureId ==
  \A i \in DOMAIN bindings :
    listeners[i].channel = getId(gestureId, bindings[i].gesture)

\* C18: the binding list is append-only and independent of contact tracking:
\* a successful addBinding appends one binding at the end, and every other
\* call (a failed addBinding, retrieveBindings, updateInputs whatever it
\* returns, resetInputs, numActiveInputs) leaves the binding list and the id
\* counter as they were.
C18_BindingsAppendOnly ==
  [][IF IsBindCall(call') /\ ret' = "binding"
     THEN /\ Len(bindings') = Len(bindings) + 1
          /\ SubSeq(bindings', 1, Len(bindings)) = bindings
     ELSE /\ bindings' = bindings
          /\ numGestures' = numGestures]_vars

\* C18 witness: with two bindings made and the id counter advanced, an
\* updateInputs call has reset the record collection and returned false.
C18_Witness ==
  /\ call.op = "updateInputs"
  /\ ret = "false"
  /\ inputs = <<>>
  /\ Len(bindings) = 2
  /\ numGestures > 0

====
